---- MODULE Spec2Model ----
(***************************************************************************)
(* State-machine model of the rapierbind C boundary (src/lib.rs): the      *)
(* process-wide PHYSIC_SOLVER_DATA world, the entity arenas behind the     *)
(* opaque handles, the step executor and the transferred event buffers.    *)
(*                                                                         *)
(* Conventions.  Real numbers are scaled integers: lengths, velocities and *)
(* gravity are in hundredths of a unit (gravity -9.81 is -981); the time   *)
(* step is an exact rational [num, den].  Quaternions are <<x, y, z, w>>   *)
(* in the host's order.  An Option is None or Some(x).                     *)
(***************************************************************************)
EXTENDS Integers, Sequences, FiniteSets, TLC

VARIABLES
    PHYSIC_SOLVER_DATA,  \* the static Option<PhysicsSolverData>
    heap,                \* the allocator's cells, by address
    heap_fault,          \* a release of a cell that is not allocated happened
    held,                \* caller side: the buffers solve() returned, not yet released
    issued,              \* caller side: handles returned by the current world
    foreign,             \* caller side: handles returned by discarded worlds
    last                 \* the last boundary call: its name, arguments, result, steps

vars == <<PHYSIC_SOLVER_DATA, heap, heap_fault, held, issued, foreign, last>>

(***************************************************************************)
(* Bounds of the model.                                                    *)
(***************************************************************************)
MaxAddr == 4          \* heap addresses 1..MaxAddr
MaxEvents == 2        \* collision events one step emits
MaxColliders == 2     \* colliders alive at once
MaxBodies == 3        \* rigid bodies alive at once
MaxJoints == 1        \* joints alive at once
MaxGeneration == 1    \* removals per arena

None == [tag |-> "None"]
Some(x) == [tag |-> "Some", val |-> x]

NULL == 0
Addr == 1..MaxAddr

(***************************************************************************)
(* Rationals, for the time step.                                           *)
(***************************************************************************)
Rat(n, d) == [num |-> n, den |-> d]
RatDiv(r, k) == [num |-> r.num, den |-> r.den * k]
RatEq(r, s) == r.num * s.den = s.num * r.den

(***************************************************************************)
(* The engine's generational arena (ColliderSet, RigidBodySet and the      *)
(* joint ids all sit on one): slots, a LIFO free list and one generation   *)
(* counter per arena, raised by every removal.  A handle is                *)
(* <<index, generation>>, index counted from 0.                            *)
(***************************************************************************)
ArenaNew == [items |-> <<>>, free |-> <<>>, generation |-> 0]

FreeEntry == [occupied |-> FALSE]

ArenaContains(a, h) ==
    /\ h[1] >= 0
    /\ h[1] < Len(a.items)
    /\ a.items[h[1] + 1].occupied
    /\ a.items[h[1] + 1].generation = h[2]

ArenaGet(a, h) == IF ArenaContains(a, h) THEN Some(a.items[h[1] + 1].value) ELSE None

ArenaHandles(a) ==
    {<<i - 1, a.items[i].generation>> : i \in {j \in 1..Len(a.items) : a.items[j].occupied}}

ArenaLen(a) == Cardinality(ArenaHandles(a))

ArenaNextHandleStale(a) ==
    <<IF a.free = <<>> THEN Len(a.items) ELSE Head(a.free), 0>>

\* The handle the next insert hands out: the head of the free list, else a new slot.
ArenaNextHandle(a) ==
    <<IF a.free = <<>> THEN Len(a.items) ELSE Head(a.free), a.generation>>

ArenaInsert(a, v) ==
    LET h == ArenaNextHandle(a)
        e == [occupied |-> TRUE, generation |-> h[2], value |-> v]
    IN  IF a.free = <<>>
        THEN [a EXCEPT !.items = Append(a.items, e)]
        ELSE [a EXCEPT !.items[h[1] + 1] = e, !.free = Tail(a.free)]

ArenaRemove(a, h) ==
    IF ArenaContains(a, h)
    THEN [a EXCEPT !.items[h[1] + 1] = FreeEntry,
                   !.free = <<h[1]>> \o a.free,
                   !.generation = a.generation + 1]
    ELSE a

\* get_mut(h) followed by a store into the entity.
ArenaSet(a, h, v) == [a EXCEPT !.items[h[1] + 1].value = v]

(***************************************************************************)
(* Entity Handle Codec (handles.rs): the engine handle's raw parts as the  *)
(* host's two-field record, and back.                                      *)
(***************************************************************************)
\* u32::MAX, the index and generation of ColliderHandle::invalid(); written as
\* the same 32 bits read signed, which no slot index or generation equals.
INVALID_U32 == -1

ToSerializable(h) == [index |-> h[1], generation |-> h[2]]
FromSerializable(s) == <<s.index, s.generation>>

ZeroedHandle == <<0, 0>>

\* ColliderHandle::invalid()
InvalidHandle == <<INVALID_U32, INVALID_U32>>

(***************************************************************************)
(* The world.                                                              *)
(***************************************************************************)
DefaultTunables == [preset |-> "IntegrationParameters::default"]

PhysicsSolverDataDefault ==
    [gravity |-> <<0, -981, 0>>,
     integration_parameters |->
        [dt |-> Rat(1, 50), min_ccd_dt |-> [num |-> 1, den |-> 50 * 100],
         num_solver_iterations |-> 4, tunables |-> DefaultTunables],
     rigid_body_set |-> ArenaNew,
     collider_set |-> ArenaNew,
     impulse_joint_set |-> ArenaNew,
     multibody_joint_set |-> {},
     query_pipeline |-> {}]

WorldExists == PHYSIC_SOLVER_DATA # None

\* get_mutable_physics_solver(): PHYSIC_SOLVER_DATA.as_mut().unwrap()
get_mutable_physics_solver == PHYSIC_SOLVER_DATA.val

\* The last call at the boundary: its name, arguments and return value, the
\* event channels of the steps it ran, and whether it ended in a panic.
Call(op, args, ret) ==
    [op |-> op, args |-> args, ret |-> ret, step |-> <<>>, panicked |-> FALSE]

\* A panic inside an extern "C" function cannot unwind to the host: the process
\* is aborted, and no entry point runs after it.
Aborted == last.panicked

Panic(op, args) ==
    /\ last' = [Call(op, args, NULL) EXCEPT !.panicked = TRUE]
    /\ UNCHANGED <<PHYSIC_SOLVER_DATA, heap, heap_fault, held, issued, foreign>>

\* The entry points that begin with get_mutable_physics_solver().
WorldEntryPoints ==
    {"set_gravity", "set_time_step", "set_integration_parameters",
     "add_cuboid_collider", "add_sphere_collider", "add_capsule_collider",
     "add_mesh_collider", "add_convex_mesh_collider",
     "add_rigid_body", "remove_rigid_body", "update_rigid_body_properties",
     "add_fixed_joint", "add_spherical_joint", "add_revolute_joint", "add_prismatic_joint",
     "remove_joint", "get_transform", "set_transform_position", "set_transform_rotation",
     "set_transform", "set_linear_velocity", "set_angular_velocity",
     "get_linear_velocity", "get_angular_velocity", "add_force", "add_torque", "cast_ray"}

unwrap_or_init(op, args) ==
    /\ ~WorldExists
    /\ PHYSIC_SOLVER_DATA' = Some(PhysicsSolverDataDefault)
    /\ last' = Call(op, args, NULL)
    /\ UNCHANGED <<heap, heap_fault, held, issued, foreign>>

\* One of these entry points without a world: PHYSIC_SOLVER_DATA.as_mut() is
\* None and unwrap() panics, in the first statement of the entry point.
unwrap_on_none(op, args) ==
    /\ ~WorldExists
    /\ Panic(op, args)

Init ==
    /\ PHYSIC_SOLVER_DATA = None
    /\ heap = [a \in Addr |-> [kind |-> "free"]]
    /\ heap_fault = FALSE
    /\ held = {}
    /\ issued = {}
    /\ foreign = {}
    /\ last = Call("start", <<>>, NULL)


(***************************************************************************)
(* Lifecycle.                                                              *)
(***************************************************************************)
init_if_absent ==
    /\ PHYSIC_SOLVER_DATA' = IF WorldExists THEN PHYSIC_SOLVER_DATA
                              ELSE Some(PhysicsSolverDataDefault)
    /\ foreign' = foreign \cup issued
    /\ issued' = {}
    /\ last' = Call("init", <<>>, NULL)
    /\ UNCHANGED <<heap, heap_fault, held>>

\* init(): the static is overwritten, so a world that was still there is dropped.
init ==
    /\ PHYSIC_SOLVER_DATA' = Some(PhysicsSolverDataDefault)
    /\ foreign' = foreign \cup issued
    /\ issued' = {}
    /\ last' = Call("init", <<>>, NULL)
    /\ UNCHANGED <<heap, heap_fault, held>>

teardown ==
    /\ PHYSIC_SOLVER_DATA' = None
    /\ foreign' = foreign \cup issued
    /\ issued' = {}
    /\ last' = Call("teardown", <<>>, NULL)
    /\ UNCHANGED <<heap, heap_fault, held>>

(***************************************************************************)
(* Settings.                                                               *)
(***************************************************************************)
GravityInputs == {<<100, 200, 300>>}
TimeStepInputs == {Rat(1, 60), Rat(1, 100)}
SolverIterationInputs == {0, 8}
TunableInputs ==
    {[num_internal_pgs_iterations |-> 1, num_additional_friction_iterations |-> 4,
      num_internal_stabilization_iterations |-> 2, max_ccd_substeps |-> 1,
      contact_damping_ratio |-> 500, joint_damping_ratio |-> 100,
      contact_natural_frequency |-> 3000, joint_natural_frequency |-> 100000,
      normalized_prediction_distance |-> 1, normalized_max_corrective_velocity |-> 1000,
      length_unit |-> 100]}

set_gravity(g) ==
    /\ WorldExists
    /\ PHYSIC_SOLVER_DATA' = Some([get_mutable_physics_solver EXCEPT !.gravity = g])
    /\ last' = Call("set_gravity", <<g>>, NULL)
    /\ UNCHANGED <<heap, heap_fault, held, issued, foreign>>

set_time_step_only(dt) ==
    /\ WorldExists
    /\ PHYSIC_SOLVER_DATA' =
         Some([get_mutable_physics_solver EXCEPT !.integration_parameters.dt = dt])
    /\ last' = Call("set_time_step", <<dt>>, NULL)
    /\ UNCHANGED <<heap, heap_fault, held, issued, foreign>>

set_time_step(dt) ==
    /\ WorldExists
    /\ PHYSIC_SOLVER_DATA' =
         Some([get_mutable_physics_solver EXCEPT
                 !.integration_parameters.dt = dt,
                 !.integration_parameters.min_ccd_dt = RatDiv(dt, 100)])
    /\ last' = Call("set_time_step", <<dt>>, NULL)
    /\ UNCHANGED <<heap, heap_fault, held, issued, foreign>>

\* NonZeroUsize::new(n).unwrap_or(NonZeroUsize::new(4).unwrap())
NonZeroOr4(n) == IF n = 0 THEN 4 ELSE n

set_integration_parameters(dt, solver_iterations, tunables) ==
    /\ WorldExists
    /\ PHYSIC_SOLVER_DATA' =
         Some([get_mutable_physics_solver EXCEPT
                 !.integration_parameters =
                     [dt |-> dt, min_ccd_dt |-> RatDiv(dt, 100),
                      num_solver_iterations |-> NonZeroOr4(solver_iterations),
                      tunables |-> tunables]])
    /\ last' = Call("set_integration_parameters", <<dt, solver_iterations, tunables>>, NULL)
    /\ UNCHANGED <<heap, heap_fault, held, issued, foreign>>

(***************************************************************************)
(* Colliders.                                                              *)
(***************************************************************************)
ScalarInputs == {50}

Collider(shape, mass, is_sensor) ==
    [shape |-> shape, density |-> mass, is_sensor |-> is_sensor,
     active_events |-> {"COLLISION_EVENTS"}, parent |-> None]

\* psd.collider_set.insert(collider).into()
InsertCollider(op, args, collider) ==
    LET psd == get_mutable_physics_solver
        h == ToSerializable(ArenaNextHandle(psd.collider_set))
    IN  /\ WorldExists
        /\ ArenaLen(psd.collider_set) < MaxColliders
        /\ PHYSIC_SOLVER_DATA' =
             Some([psd EXCEPT !.collider_set = ArenaInsert(psd.collider_set, collider)])
        /\ issued' = issued \cup {[kind |-> "collider", h |-> h]}
        /\ last' = Call(op, args, h)
        /\ UNCHANGED <<heap, heap_fault, held, foreign>>

add_cuboid_collider(hx, hy, hz, mass, is_sensor) ==
    InsertCollider("add_cuboid_collider", <<hx, hy, hz, mass, is_sensor>>,
                   Collider([kind |-> "cuboid", half_extents |-> <<hx, hy, hz>>],
                            mass, is_sensor))

add_sphere_collider(radius, mass, is_sensor) ==
    InsertCollider("add_sphere_collider", <<radius, mass, is_sensor>>,
                   Collider([kind |-> "ball", radius |-> radius], mass, is_sensor))

add_capsule_collider(half_height, radius, mass, is_sensor) ==
    InsertCollider("add_capsule_collider", <<half_height, radius, mass, is_sensor>>,
                   Collider([kind |-> "capsule_y", half_height |-> half_height,
                             radius |-> radius], mass, is_sensor))

\* ColliderBuilder::trimesh(vertices, indices): an error for a mesh without a
\* triangle, else the builder of the mesh.  The indices are into the vertices.
ColliderBuilder_trimesh(vertices, indices) ==
    IF indices = <<>> THEN [tag |-> "Err"]
    ELSE [tag |-> "Ok", val |-> [kind |-> "trimesh", vertices |-> vertices,
                                 indices |-> indices]]

MeshFailed(op, args) ==
    /\ WorldExists
    /\ last' = Call(op, args, ToSerializable(InvalidHandle))
    /\ UNCHANGED <<PHYSIC_SOLVER_DATA, heap, heap_fault, held, issued, foreign>>

add_mesh_collider(vertices, indices, mass, is_sensor) ==
    LET built == ColliderBuilder_trimesh(vertices, indices)
        args == <<vertices, indices, mass, is_sensor>>
    IN  \/ /\ built.tag = "Ok"
           /\ InsertCollider("add_mesh_collider", args, Collider(built.val, mass, is_sensor))
        \/ /\ built.tag = "Err"
           /\ MeshFailed("add_mesh_collider", args)

\* Points that span no volume: fewer than four different ones.
IsDegenerate(points) == Cardinality({points[i] : i \in DOMAIN points}) < 4

\* ColliderBuilder::convex_hull(&points): the builder of the hull; on points
\* that span no volume the engine's hull computation reports None or panics.
ColliderBuilder_convex_hull(points) ==
    IF IsDegenerate(points) THEN {"None", "panic"} ELSE {"Some"}

add_convex_mesh_collider(points, mass, is_sensor) ==
    LET args == <<points, mass, is_sensor>>
    IN  \E built \in ColliderBuilder_convex_hull(points) :
          \/ /\ built = "Some"
             /\ InsertCollider("add_convex_mesh_collider", args,
                               Collider([kind |-> "convex_polyhedron", points |-> points],
                                        mass, is_sensor))
          \/ /\ built = "None"
             /\ MeshFailed("add_convex_mesh_collider", args)
          \/ /\ built = "panic"
             /\ WorldExists
             /\ Panic("add_convex_mesh_collider", args)


(***************************************************************************)
(* Geometric conversions.  One unit is 100, so a unit quaternion has norm  *)
(* 100 and the identity rotation is <<0, 0, 0, 100>>.                      *)
(***************************************************************************)
Abs(x) == IF x < 0 THEN -x ELSE x

RECURSIVE SumSq(_)
SumSq(v) == IF v = <<>> THEN 0 ELSE Head(v) * Head(v) + SumSq(Tail(v))

RECURSIVE SumAbs(_)
SumAbs(v) == IF v = <<>> THEN 0 ELSE Abs(Head(v)) + SumAbs(Tail(v))

RECURSIVE MaxAbs(_)
MaxAbs(v) ==
    IF v = <<>> THEN 0
    ELSE LET m == MaxAbs(Tail(v)) IN IF Abs(Head(v)) > m THEN Abs(Head(v)) ELSE m

\* The Euclidean norm, which lies between the largest component and the sum of
\* the components; exact on the axis-aligned inputs the model draws.
Norm(v) ==
    LET s == SumSq(v)
    IN  CHOOSE r \in MaxAbs(v)..SumAbs(v) : r * r <= s /\ (r + 1) * (r + 1) > s

\* UnitQuaternion::new_normalize / UnitVector::new_normalize
Normalize(v) == [i \in DOMAIN v |-> (v[i] * 100) \div Norm(v)]

Neg(v) == [i \in DOMAIN v |-> -v[i]]

ZeroVector == <<0, 0, 0>>
IdentityRotation == <<0, 0, 0, 100>>

\* add_rigid_body's rotation: the unit quaternion, read as angle (taken from |w|)
\* and axis (the imaginary part, negated when w < 0; the z axis when it is
\* zero), is rebuilt from axis * angle: q and -q give the quaternion with w >= 0.
RotationFromQuaternion(q) ==
    LET u == Normalize(q)
    IN  IF u[4] < 0 THEN Neg(u) ELSE u

Isometry(translation, rotation) == [translation |-> translation, rotation |-> rotation]

(***************************************************************************)
(* Rigid bodies.                                                           *)
(***************************************************************************)
\* handles.rs: SerializableRigidBodyType into RigidBodyType
RigidBodyTypeFrom(t) ==
    CASE t = 0 -> "Dynamic"
      [] t = 1 -> "Fixed"
      [] t = 2 -> "KinematicPositionBased"
      [] t = 3 -> "KinematicVelocityBased"

is_kinematic(rb) == rb.body_type \in {"KinematicPositionBased", "KinematicVelocityBased"}

\* RigidBodyBuilder::new(rb_type).translation(..).rotation(..).build()
RigidBodyBuild(body_type, translation, rotation) ==
    [body_type |-> body_type,
     position |-> Isometry(translation, rotation),
     next_position |-> Isometry(translation, rotation),
     linvel |-> ZeroVector, angvel |-> ZeroVector,
     locked_axes |-> {}, ccd_enabled |-> FALSE,
     linear_damping |-> 0, angular_damping |-> 0,
     user_force |-> ZeroVector, user_torque |-> ZeroVector,
     colliders |-> {}]

WithoutCollider(bodies, parent, c) ==
    IF parent # None /\ ArenaContains(bodies, parent.val)
    THEN ArenaSet(bodies, parent.val,
                  [ArenaGet(bodies, parent.val).val EXCEPT !.colliders = @ \ {c}])
    ELSE bodies

WithCollider(bodies, b, c) ==
    IF ArenaContains(bodies, b)
    THEN ArenaSet(bodies, b, [ArenaGet(bodies, b).val EXCEPT !.colliders = @ \cup {c}])
    ELSE bodies

set_parent_keep_old(psd, c, b) ==
    IF ~ArenaContains(psd.collider_set, c) THEN psd
    ELSE [psd EXCEPT
            !.collider_set = ArenaSet(@, c, [ArenaGet(@, c).val EXCEPT !.parent = Some(b)]),
            !.rigid_body_set = WithCollider(@, b, c)]

\* ColliderSet::set_parent(c, Some(b), bodies): nothing for a handle that is not
\* in the set or a parent that is b already; else c leaves its current parent's
\* collider list, takes b as parent and joins b's collider list.
set_parent(psd, c, b) ==
    IF ~ArenaContains(psd.collider_set, c) THEN psd
    ELSE LET co == ArenaGet(psd.collider_set, c).val
         IN  IF co.parent = Some(b) THEN psd
             ELSE [psd EXCEPT
                     !.collider_set = ArenaSet(@, c, [co EXCEPT !.parent = Some(b)]),
                     !.rigid_body_set = WithCollider(WithoutCollider(@, co.parent, c), b, c)]

add_rigid_body(collider, rb_type, position, rotation) ==
    LET psd == get_mutable_physics_solver
        rigid_body == RigidBodyBuild(RigidBodyTypeFrom(rb_type), position,
                                     RotationFromQuaternion(rotation))
        rb_handle == ArenaNextHandle(psd.rigid_body_set)
        inserted == [psd EXCEPT !.rigid_body_set = ArenaInsert(@, rigid_body)]
    IN  /\ WorldExists
        /\ ArenaLen(psd.rigid_body_set) < MaxBodies
        /\ PHYSIC_SOLVER_DATA' = Some(set_parent(inserted, FromSerializable(collider), rb_handle))
        /\ issued' = issued \cup {[kind |-> "body", h |-> ToSerializable(rb_handle)]}
        /\ last' = Call("add_rigid_body", <<collider, rb_type, position, rotation>>,
                        ToSerializable(rb_handle))
        /\ UNCHANGED <<heap, heap_fault, held, foreign>>

RECURSIVE RemoveAll(_, _)
RemoveAll(a, hs) ==
    IF hs = {} THEN a
    ELSE LET h == CHOOSE x \in hs : TRUE
         IN  RemoveAll(ArenaRemove(a, h), hs \ {h})

JointsAttachedTo(joints, b) ==
    {j \in ArenaHandles(joints) :
        ArenaGet(joints, j).val.body1 = b \/ ArenaGet(joints, j).val.body2 = b}

RigidBodySetRemoveKeepJoints(psd, b) ==
    IF ~ArenaContains(psd.rigid_body_set, b) THEN psd
    ELSE LET rb == ArenaGet(psd.rigid_body_set, b).val
         IN  [psd EXCEPT
                !.rigid_body_set = ArenaRemove(@, b),
                !.collider_set = RemoveAll(@, rb.colliders)]

\* RigidBodySet::remove(b, islands, colliders, impulse_joints, multibody_joints,
\* true): nothing for a handle that is not in the set; else the body, the
\* colliders of its collider list and the joints attached to it are removed.
RigidBodySetRemove(psd, b) ==
    IF ~ArenaContains(psd.rigid_body_set, b) THEN psd
    ELSE LET rb == ArenaGet(psd.rigid_body_set, b).val
         IN  [psd EXCEPT
                !.rigid_body_set = ArenaRemove(@, b),
                !.collider_set = RemoveAll(@, rb.colliders),
                !.impulse_joint_set = RemoveAll(@, JointsAttachedTo(@, b))]

remove_rigid_body(rb_handle) ==
    LET psd == get_mutable_physics_solver
        removed == RigidBodySetRemove(psd, FromSerializable(rb_handle))
    IN  /\ WorldExists
        /\ removed.rigid_body_set.generation <= MaxGeneration
        /\ removed.collider_set.generation <= MaxGeneration
        /\ removed.impulse_joint_set.generation <= MaxGeneration
        /\ PHYSIC_SOLVER_DATA' = Some(removed)
        /\ last' = Call("remove_rigid_body", <<rb_handle>>, NULL)
        /\ UNCHANGED <<heap, heap_fault, held, issued, foreign>>


(***************************************************************************)
(* Joints.  The joint set hands out handles from an arena of its own; a    *)
(* joint records the two bodies it connects.                               *)
(***************************************************************************)
\* psd.impulse_joint_set.insert(rb1, rb2, joint, false).into()
InsertJoint(op, args, rb1_handle, rb2_handle, data) ==
    LET psd == get_mutable_physics_solver
        h == ToSerializable(ArenaNextHandle(psd.impulse_joint_set))
        joint == [body1 |-> FromSerializable(rb1_handle),
                  body2 |-> FromSerializable(rb2_handle), data |-> data]
    IN  /\ ArenaLen(psd.impulse_joint_set) < MaxJoints
        /\ PHYSIC_SOLVER_DATA' =
             Some([psd EXCEPT !.impulse_joint_set = ArenaInsert(@, joint)])
        /\ issued' = issued \cup {[kind |-> "joint", h |-> h]}
        /\ last' = Call(op, args, h)
        /\ UNCHANGED <<heap, heap_fault, held, foreign>>

BodyIsLive(h) ==
    /\ WorldExists
    /\ ArenaContains(get_mutable_physics_solver.rigid_body_set, FromSerializable(h))

\* psd.rigid_body_set.get(h).unwrap() / get_mut(h).unwrap(), on a live handle
Body(h) == ArenaGet(get_mutable_physics_solver.rigid_body_set, FromSerializable(h)).val

\* Fixed and spherical joints: each local frame is the given point with the
\* body's rotation at the time of the call.
FrameJointData(kind, rb1_handle, rb2_handle, point1, point2, self_collision) ==
    [kind |-> kind,
     local_frame1 |-> Isometry(point1, Body(rb1_handle).position.rotation),
     local_frame2 |-> Isometry(point2, Body(rb2_handle).position.rotation),
     contacts_enabled |-> self_collision]

add_fixed_joint(rb1_handle, rb2_handle, point1, point2, self_collision) ==
    /\ BodyIsLive(rb1_handle)
    /\ BodyIsLive(rb2_handle)
    /\ InsertJoint("add_fixed_joint",
                   <<rb1_handle, rb2_handle, point1, point2, self_collision>>,
                   rb1_handle, rb2_handle,
                   FrameJointData("Fixed", rb1_handle, rb2_handle, point1, point2,
                                  self_collision))

add_spherical_joint(rb1_handle, rb2_handle, point1, point2, self_collision) ==
    /\ BodyIsLive(rb1_handle)
    /\ BodyIsLive(rb2_handle)
    /\ InsertJoint("add_spherical_joint",
                   <<rb1_handle, rb2_handle, point1, point2, self_collision>>,
                   rb1_handle, rb2_handle,
                   FrameJointData("Spherical", rb1_handle, rb2_handle, point1, point2,
                                  self_collision))

\* The revolute and prismatic entry points do not look the bodies up; the model's
\* caller passes them live bodies.
add_revolute_joint(rb1_handle, rb2_handle, axis, point1, point2, self_collision) ==
    /\ BodyIsLive(rb1_handle)
    /\ BodyIsLive(rb2_handle)
    /\ InsertJoint("add_revolute_joint",
                   <<rb1_handle, rb2_handle, axis, point1, point2, self_collision>>,
                   rb1_handle, rb2_handle,
                   [kind |-> "Revolute", axis |-> Normalize(axis),
                    local_anchor1 |-> point1, local_anchor2 |-> point2,
                    contacts_enabled |-> self_collision])

add_prismatic_joint(rb1_handle, rb2_handle, axis, point1, point2, limit_min, limit_max, self_collision) ==
    /\ BodyIsLive(rb1_handle)
    /\ BodyIsLive(rb2_handle)
    /\ InsertJoint("add_prismatic_joint",
                   <<rb1_handle, rb2_handle, axis, point1, point2, limit_min, limit_max,
                     self_collision>>,
                   rb1_handle, rb2_handle,
                   [kind |-> "Prismatic", axis |-> Normalize(axis),
                    local_anchor1 |-> point1, local_anchor2 |-> point2,
                    limits |-> <<limit_min, limit_max>>,
                    contacts_enabled |-> self_collision])

remove_joint(handle) ==
    LET psd == get_mutable_physics_solver
        removed == ArenaRemove(psd.impulse_joint_set, FromSerializable(handle))
    IN  /\ WorldExists
        /\ removed.generation <= MaxGeneration
        /\ PHYSIC_SOLVER_DATA' = Some([psd EXCEPT !.impulse_joint_set = removed])
        /\ last' = Call("remove_joint", <<handle>>, NULL)
        /\ UNCHANGED <<heap, heap_fault, held, issued, foreign>>


(***************************************************************************)
(* Rigid-body properties, transforms and velocities.  Each entry point     *)
(* unwraps the body lookup, so it runs to completion on a live handle only.*)
(***************************************************************************)
StoreBody(op, args, ret, rb_handle, rb) ==
    /\ PHYSIC_SOLVER_DATA' =
         Some([get_mutable_physics_solver EXCEPT
                 !.rigid_body_set = ArenaSet(@, FromSerializable(rb_handle), rb)])
    /\ last' = Call(op, args, ret)
    /\ UNCHANGED <<heap, heap_fault, held, issued, foreign>>

\* RigidBody::set_body_type(status, true): a body made Fixed loses its velocity.
set_body_type(rb, status) ==
    IF status = rb.body_type THEN rb
    ELSE IF status = "Fixed"
         THEN [rb EXCEPT !.body_type = status, !.linvel = ZeroVector, !.angvel = ZeroVector]
         ELSE [rb EXCEPT !.body_type = status]

\* utils.rs: the host's constraint bitmask (freeze position x, y, z = 2, 4, 8;
\* freeze rotation x, y, z = 16, 32, 64) against the engine's LockedAxes flags.
LockedAxes == {"TRANSLATION_LOCKED_X", "TRANSLATION_LOCKED_Y", "TRANSLATION_LOCKED_Z",
               "ROTATION_LOCKED_X", "ROTATION_LOCKED_Y", "ROTATION_LOCKED_Z"}

UnityBit(axis) ==
    CASE axis = "TRANSLATION_LOCKED_X" -> 2
      [] axis = "TRANSLATION_LOCKED_Y" -> 4
      [] axis = "TRANSLATION_LOCKED_Z" -> 8
      [] axis = "ROTATION_LOCKED_X" -> 16
      [] axis = "ROTATION_LOCKED_Y" -> 32
      [] axis = "ROTATION_LOCKED_Z" -> 64

unity_constraints_to_locked_axes(constraints) ==
    {axis \in LockedAxes : (constraints \div UnityBit(axis)) % 2 = 1}

RECURSIVE SumBits(_)
SumBits(axes) ==
    IF axes = {} THEN 0
    ELSE LET a == CHOOSE x \in axes : TRUE
         IN  UnityBit(a) + SumBits(axes \ {a})

locked_axes_to_unity_constraints(locked_axes) == SumBits(locked_axes)

\* utils.rs: the velocity components along the locked axes are set to zero.
cancel_axis_velocity(locks, rb) ==
    [rb EXCEPT
       !.linvel = <<IF "TRANSLATION_LOCKED_X" \in locks THEN 0 ELSE @[1],
                    IF "TRANSLATION_LOCKED_Y" \in locks THEN 0 ELSE @[2],
                    IF "TRANSLATION_LOCKED_Z" \in locks THEN 0 ELSE @[3]>>,
       !.angvel = <<IF "ROTATION_LOCKED_X" \in locks THEN 0 ELSE @[1],
                    IF "ROTATION_LOCKED_Y" \in locks THEN 0 ELSE @[2],
                    IF "ROTATION_LOCKED_Z" \in locks THEN 0 ELSE @[3]>>]

UpdatedPropertiesNoCancel(rb, rb_type, enable_ccd, constraints, linear_drag, angular_drag) ==
    LET typed == set_body_type(rb, RigidBodyTypeFrom(rb_type))
        locks == unity_constraints_to_locked_axes(constraints)
        locked == IF locked_axes_to_unity_constraints(typed.locked_axes) # constraints
                  THEN [typed EXCEPT !.locked_axes = locks]
                  ELSE typed
    IN  [locked EXCEPT !.ccd_enabled = enable_ccd,
                       !.linear_damping = linear_drag, !.angular_damping = angular_drag]

\* The body update_rigid_body_properties leaves behind.
UpdatedProperties(rb, rb_type, enable_ccd, constraints, linear_drag, angular_drag) ==
    LET typed == set_body_type(rb, RigidBodyTypeFrom(rb_type))
        ccd == [typed EXCEPT !.ccd_enabled = enable_ccd]
        locks == unity_constraints_to_locked_axes(constraints)
        locked == IF locked_axes_to_unity_constraints(ccd.locked_axes) # constraints
                  THEN cancel_axis_velocity(locks, [ccd EXCEPT !.locked_axes = locks])
                  ELSE ccd
    IN  [locked EXCEPT !.linear_damping = linear_drag, !.angular_damping = angular_drag]

update_rigid_body_properties(rb_handle, rb_type, enable_ccd, constraints, linear_drag, angular_drag) ==
    /\ BodyIsLive(rb_handle)
    /\ StoreBody("update_rigid_body_properties",
                 <<rb_handle, rb_type, enable_ccd, constraints, linear_drag, angular_drag>>,
                 NULL, rb_handle,
                 UpdatedProperties(Body(rb_handle), rb_type, enable_ccd, constraints,
                                   linear_drag, angular_drag))

\* RapierTransform { rotation: pos.rotation.coords, position: pos.translation.vector }
RapierTransform(rb) ==
    [rotation |-> rb.position.rotation, position |-> rb.position.translation]

get_transform(rb_handle) ==
    /\ BodyIsLive(rb_handle)
    /\ last' = Call("get_transform", <<rb_handle>>, RapierTransform(Body(rb_handle)))
    /\ UNCHANGED <<PHYSIC_SOLVER_DATA, heap, heap_fault, held, issued, foreign>>

\* RigidBody::set_next_kinematic_position: only a kinematic body takes it.
set_next_kinematic_position(rb, iso) ==
    IF is_kinematic(rb) THEN [rb EXCEPT !.next_position = iso] ELSE rb

\* RigidBody::set_next_kinematic_rotation: only a kinematic body takes it.
set_next_kinematic_rotation(rb, rotation) ==
    IF is_kinematic(rb) THEN [rb EXCEPT !.next_position.rotation = rotation] ELSE rb

PositionSetCurrentRotation(rb, position) ==
    set_next_kinematic_position(rb, Isometry(position, rb.position.rotation))

\* The body set_transform_position leaves behind: the new translation with
\* the rotation of the body's next position.
PositionSet(rb, position) ==
    set_next_kinematic_position(rb, Isometry(position, rb.next_position.rotation))

set_transform_position(rb_handle, position) ==
    /\ BodyIsLive(rb_handle)
    /\ StoreBody("set_transform_position", <<rb_handle, position>>, NULL, rb_handle,
                 PositionSet(Body(rb_handle), position))

set_transform_rotation(rb_handle, rotation) ==
    /\ BodyIsLive(rb_handle)
    /\ StoreBody("set_transform_rotation", <<rb_handle, rotation>>, NULL, rb_handle,
                 set_next_kinematic_rotation(Body(rb_handle), Normalize(rotation)))

set_transform(rb_handle, position, rotation) ==
    /\ BodyIsLive(rb_handle)
    /\ StoreBody("set_transform", <<rb_handle, position, rotation>>, NULL, rb_handle,
                 set_next_kinematic_position(Body(rb_handle),
                                             Isometry(position, Normalize(rotation))))

\* RigidBody::set_linvel / set_angvel: taken by a dynamic or a velocity-based
\* kinematic body, ignored by a fixed or a position-based kinematic one.
TakesVelocity(rb) == rb.body_type \in {"Dynamic", "KinematicVelocityBased"}

set_linear_velocity(rb_handle, velocity) ==
    /\ BodyIsLive(rb_handle)
    /\ StoreBody("set_linear_velocity", <<rb_handle, velocity>>, NULL, rb_handle,
                 IF TakesVelocity(Body(rb_handle))
                 THEN [Body(rb_handle) EXCEPT !.linvel = velocity]
                 ELSE Body(rb_handle))

set_angular_velocity(rb_handle, velocity) ==
    /\ BodyIsLive(rb_handle)
    /\ StoreBody("set_angular_velocity", <<rb_handle, velocity>>, NULL, rb_handle,
                 IF TakesVelocity(Body(rb_handle))
                 THEN [Body(rb_handle) EXCEPT !.angvel = velocity]
                 ELSE Body(rb_handle))

get_linear_velocity(rb_handle) ==
    /\ BodyIsLive(rb_handle)
    /\ last' = Call("get_linear_velocity", <<rb_handle>>, Body(rb_handle).linvel)
    /\ UNCHANGED <<PHYSIC_SOLVER_DATA, heap, heap_fault, held, issued, foreign>>

get_angular_velocity(rb_handle) ==
    /\ BodyIsLive(rb_handle)
    /\ last' = Call("get_angular_velocity", <<rb_handle>>, Body(rb_handle).angvel)
    /\ UNCHANGED <<PHYSIC_SOLVER_DATA, heap, heap_fault, held, issued, foreign>>


(***************************************************************************)
(* Forces.  add_force and add_torque compute a new velocity from the mode, *)
(* the world's time step and the body's mass, and hand it to the engine's  *)
(* velocity setter; the body's force accumulators are not written.         *)
(***************************************************************************)
\* pub enum ForceMode { Force = 0, Impulse = 1, VelocityChange = 2, Acceleration = 5 }
ForceMode == {0, 1, 2, 5}

\* The volume of a collider's shape, in hundredths; pi is taken as 3.14.
ShapeVolume(shape) ==
    CASE shape.kind = "cuboid" ->
           (8 * shape.half_extents[1] * shape.half_extents[2] * shape.half_extents[3]) \div 10000
      [] shape.kind = "ball" ->
           (4 * 314 * shape.radius * shape.radius * shape.radius) \div 3000000
      [] shape.kind = "capsule_y" ->
           (314 * shape.radius * shape.radius * (6 * shape.half_height + 4 * shape.radius))
              \div 3000000
      [] OTHER -> 0

RECURSIVE SumMass(_, _)
SumMass(colliders, cs) ==
    IF cs = {} THEN 0
    ELSE LET c == CHOOSE x \in cs : TRUE
             co == ArenaGet(colliders, c).val
         IN  (co.density * ShapeVolume(co.shape)) \div 100 + SumMass(colliders, cs \ {c})

\* rb.mass(): the mass the body has from the colliders attached to it.
mass(psd, rb) == SumMass(psd.collider_set, rb.colliders)

\* An f32 divided by a zero mass is an infinity or a NaN: one value outside the
\* range of the scaled integers, which stays what it is under an addition.
NonFinite == 2147483647

AddedVelocityDefaultStep(f, mode, dt, m) ==
    CASE mode = 0 -> IF m = 0 THEN NonFinite ELSE (f * 100) \div (50 * m)
      [] mode = 1 -> IF m = 0 THEN NonFinite ELSE (f * 100) \div m
      [] mode = 2 -> f
      [] mode = 5 -> f \div 50

\* One component of what the match on the mode adds to the velocity.
AddedVelocity(f, mode, dt, m) ==
    CASE mode = 0 -> IF m = 0 THEN NonFinite ELSE (f * dt.num * 100) \div (dt.den * m)
      [] mode = 1 -> IF m = 0 THEN NonFinite ELSE (f * 100) \div m
      [] mode = 2 -> f
      [] mode = 5 -> (f * dt.num) \div dt.den

Plus(v, d) == IF v = NonFinite \/ d = NonFinite THEN NonFinite ELSE v + d

\* linvel += ... : the velocity with the mode's addition, component by component.
Accelerated(v, force, mode, dt, m) ==
    [i \in 1..3 |-> Plus(v[i], AddedVelocity(force[i], mode, dt, m))]

add_force(rb_handle, force, mode) ==
    /\ BodyIsLive(rb_handle)
    /\ LET psd == get_mutable_physics_solver
           rb == Body(rb_handle)
           linvel == Accelerated(rb.linvel, force, mode, psd.integration_parameters.dt,
                                 mass(psd, rb))
       IN  StoreBody("add_force", <<rb_handle, force, mode>>, NULL, rb_handle,
                     IF TakesVelocity(rb) THEN [rb EXCEPT !.linvel = linvel] ELSE rb)

add_torque(rb_handle, torque, mode) ==
    /\ BodyIsLive(rb_handle)
    /\ LET psd == get_mutable_physics_solver
           rb == Body(rb_handle)
           angvel == Accelerated(rb.angvel, torque, mode, psd.integration_parameters.dt,
                                 mass(psd, rb))
       IN  StoreBody("add_torque", <<rb_handle, torque, mode>>, NULL, rb_handle,
                     IF TakesVelocity(rb) THEN [rb EXCEPT !.angvel = angvel] ELSE rb)


(***************************************************************************)
(* Scene query.                                                            *)
(***************************************************************************)
\* cast_ray(from, dir, out_hit): the first collider of the query pipeline that
\* the ray meets within 4 units, written to out_hit, or false.  Which collider
\* the ray meets is the engine's geometry and is left open here.
cast_ray(from, dir) ==
    LET psd == get_mutable_physics_solver
    IN  /\ WorldExists
        /\ \E hit \in {None} \cup
                      {Some(c) : c \in psd.query_pipeline \cap ArenaHandles(psd.collider_set)} :
             last' = Call("cast_ray", <<from, dir>>,
                          IF hit = None THEN [hit |-> FALSE]
                          ELSE [hit |-> TRUE, m_uv |-> <<0, 0>>,
                                m_collider |-> ToSerializable(hit.val)])
        /\ UNCHANGED <<PHYSIC_SOLVER_DATA, heap, heap_fault, held, issued, foreign>>

\* hello_world(): a log line.
hello_world ==
    /\ last' = Call("hello_world", <<>>, NULL)
    /\ UNCHANGED <<PHYSIC_SOLVER_DATA, heap, heap_fault, held, issued, foreign>>


(***************************************************************************)
(* The step executor and the transferred buffers.                          *)
(***************************************************************************)
FreeCell == [kind |-> "free"]
FreeAddrs == {a \in Addr : heap[a] = FreeCell}

AllocSame(h) == CHOOSE a \in Addr : TRUE

\* The allocator hands out the lowest free address, so a released address is reused.
Alloc(h) == CHOOSE a \in Addr : h[a] = FreeCell /\ \A b \in Addr : h[b] = FreeCell => a <= b

\* What the engine may send on the collision channel during one step: events
\* between two colliders of the world.  The engine's event is Started or
\* Stopped; "Other" stands for whatever answers neither started() nor
\* stopped(), the case the drain loop's last branch is written for.
EventKinds == {"Started", "Stopped", "Other"}

ColliderPairs(psd) ==
    {p \in ArenaHandles(psd.collider_set) \X ArenaHandles(psd.collider_set) :
        p[1][1] < p[2][1]}

CollisionEvents(psd) ==
    {[kind |-> k, collider1 |-> p[1], collider2 |-> p[2]] :
        k \in EventKinds, p \in ColliderPairs(psd)}

EventSeqs(psd) == UNION {[1..n -> CollisionEvents(psd)] : n \in 0..MaxEvents}

\* physics_pipeline.step on the entities, as far as the boundary shows it: a
\* position-based kinematic body arrives at its next position, and the query
\* pipeline takes the colliders there are.  The solver's integration of the
\* other bodies is the engine's and is left out.
PipelineStep(psd) ==
    LET items == psd.rigid_body_set.items
        arrive(e) == IF e.occupied /\ e.value.body_type = "KinematicPositionBased"
                     THEN [e EXCEPT !.value.position = e.value.next_position]
                     ELSE e
    IN  [psd EXCEPT !.rigid_body_set.items = [i \in DOMAIN items |-> arrive(items[i])],
                    !.query_pipeline = ArenaHandles(psd.collider_set)]

SerializableCollisionEvent(e, is_started) ==
    [collider1 |-> ToSerializable(e.collider1),
     collider2 |-> ToSerializable(e.collider2),
     is_started |-> is_started]

RECURSIVE DrainAllStarted(_)
DrainAllStarted(channel) ==
    IF channel = <<>> THEN <<>>
    ELSE <<SerializableCollisionEvent(Head(channel), TRUE)>> \o DrainAllStarted(Tail(channel))

\* while let Ok(collision_event) = collision_recv.try_recv() { ... }
RECURSIVE DrainEvents(_)
DrainEvents(channel) ==
    IF channel = <<>> THEN <<>>
    ELSE LET e == Head(channel)
             rest == DrainEvents(Tail(channel))
         IN  IF e.kind = "Started"
             THEN <<SerializableCollisionEvent(e, TRUE)>> \o rest
             ELSE IF e.kind = "Stopped"
                  THEN <<SerializableCollisionEvent(e, FALSE)>> \o rest
                  ELSE rest

\* The capacity Vec::new() followed by len pushes ends with: nothing is allocated
\* for no element, the first push allocates 4, a full vector doubles.
RECURSIVE Grow(_, _)
Grow(capacity, len) ==
    IF len <= capacity THEN capacity
    ELSE Grow(IF capacity = 0 THEN 4 ELSE 2 * capacity, len)

VecCapacity(len) == Grow(0, len)

mem_drop(h, ptr, capacity) == IF capacity = 0 THEN h ELSE [h EXCEPT ![ptr] = FreeCell]

\* mem::forget(collision_events): the vector's storage outlives the call.
mem_forget(h, ptr, capacity) == h

solve_lazy_world ==
    /\ ~WorldExists
    /\ PHYSIC_SOLVER_DATA' = Some(PhysicsSolverDataDefault)
    /\ last' = Call("solve", <<>>, NULL)
    /\ UNCHANGED <<heap, heap_fault, held, issued, foreign>>

\* solve() without a world: the warning, and the null pointer.
solve_uninitialized ==
    /\ ~WorldExists
    /\ last' = Call("solve", <<>>, NULL)
    /\ UNCHANGED <<PHYSIC_SOLVER_DATA, heap, heap_fault, held, issued, foreign>>

\* solve() on a world: one step, the drained events in a vector whose storage
\* (ptr; 0 for the unallocated storage of an empty vector) and boxed descriptor
\* (val) are fresh allocations handed to the caller.  With too little memory
\* left for them the call does not return.
solve_step ==
    /\ WorldExists
    /\ \E channel \in EventSeqs(get_mutable_physics_solver) :
         LET collision_events == DrainEvents(channel)
             len == Len(collision_events)
             capacity == VecCapacity(len)
             ptr == IF capacity = 0 THEN 0 ELSE Alloc(heap)
             stored == IF capacity = 0 THEN heap
                       ELSE [heap EXCEPT ![ptr] =
                               [kind |-> "events", data |-> collision_events,
                                capacity |-> capacity]]
             val == Alloc(stored)
             boxed == [stored EXCEPT ![val] =
                         [kind |-> "RawArray", ptr |-> ptr, len |-> len,
                          capacity |-> capacity]]
         IN  /\ Cardinality(FreeAddrs) >= (IF capacity = 0 THEN 1 ELSE 2)
             /\ heap' = mem_forget(boxed, ptr, capacity)
             /\ held' = held \cup {[desc |-> val, events |-> collision_events]}
             /\ last' = [Call("solve", <<>>, val) EXCEPT !.step = <<channel>>]
    /\ PHYSIC_SOLVER_DATA' = Some(PipelineStep(get_mutable_physics_solver))
    /\ UNCHANGED <<heap_fault, issued, foreign>>

solve == solve_uninitialized \/ solve_step

\* The allocator's release of one cell; releasing a cell that is not allocated
\* is the fault an allocation tracker reports.
Dealloc(hf, a) ==
    IF hf.heap[a] = FreeCell
    THEN [heap |-> hf.heap, fault |-> TRUE]
    ELSE [heap |-> [hf.heap EXCEPT ![a] = FreeCell], fault |-> hf.fault]

\* Box::from_raw(ptr) and Vec::from_raw_parts(info.ptr, info.len, info.capacity),
\* both dropped at the end of the call: the storage, when it has capacity, and
\* the descriptor are released.
Release(hf, ptr) ==
    LET info == hf.heap[ptr]
        vec == IF info.capacity = 0 THEN hf ELSE Dealloc(hf, info.ptr)
    IN  Dealloc(vec, ptr)

\* The caller releases a buffer it holds, once.
free_collision_events(ptr) ==
    LET released == Release([heap |-> heap, fault |-> heap_fault], ptr)
    IN  /\ ptr \in {b.desc : b \in held}
        /\ heap' = released.heap
        /\ heap_fault' = released.fault
        /\ held' = {b \in held : b.desc # ptr}
        /\ last' = Call("free_collision_events", <<ptr>>, NULL)
        /\ UNCHANGED <<PHYSIC_SOLVER_DATA, issued, foreign>>


(***************************************************************************)
(* The host: any entry point, at any time, with handles it was given by    *)
(* this world or by a discarded one.                                       *)
(***************************************************************************)
KnownHandles(kind) == {x.h : x \in {y \in issued \cup foreign : y.kind = kind}}

PointInputs == {ZeroVector, <<100, 200, 300>>}
QuaternionInputs == {<<0, 0, 0, 100>>, <<0, 0, 0, -200>>, <<300, 0, 0, 0>>}
AxisInputs == {<<0, 200, 0>>}

Lifecycle == init \/ teardown

Settings ==
    \/ \E g \in GravityInputs : set_gravity(g)
    \/ \E dt \in TimeStepInputs : set_time_step(dt)
    \/ \E dt \in TimeStepInputs, n \in SolverIterationInputs, t \in TunableInputs :
         set_integration_parameters(dt, n, t)

Stepping ==
    \/ solve
    \/ \E ptr \in Addr : free_collision_events(ptr)

ColliderCount == IF WorldExists THEN ArenaLen(get_mutable_physics_solver.collider_set) ELSE 0
BodyCount == IF WorldExists THEN ArenaLen(get_mutable_physics_solver.rigid_body_set) ELSE 0
JointCount == IF WorldExists THEN ArenaLen(get_mutable_physics_solver.impulse_joint_set) ELSE 0

\* The world's lifecycle and settings, with a small scene (a collider, two
\* bodies, joints between them) created in between.
Next ==
    \/ Lifecycle
    \/ Settings
    \/ ColliderCount = 0 /\ \E x \in ScalarInputs : add_capsule_collider(x, x, 100, TRUE)
    \/ BodyCount < 2 /\ \E c \in KnownHandles("collider") :
         add_rigid_body(c, 0, ZeroVector, IdentityRotation)
    \/ \E b1 \in KnownHandles("body"), a \in AxisInputs : \E b2 \in KnownHandles("body") \ {b1} :
         \/ add_spherical_joint(b1, b2, ZeroVector, ZeroVector, TRUE)
         \/ add_revolute_joint(b1, b2, a, ZeroVector, ZeroVector, FALSE)
         \/ add_prismatic_joint(b1, b2, a, ZeroVector, ZeroVector, 0, 100, FALSE)

Spec == Init /\ [][Next]_vars

\* Joints between two bodies: created, and removed one by one.
NextJoints ==
    \/ Lifecycle
    \/ ColliderCount = 0 /\ \E x \in ScalarInputs : add_capsule_collider(x, x, 100, TRUE)
    \/ BodyCount < 2 /\ \E c \in KnownHandles("collider") :
         add_rigid_body(c, 0, ZeroVector, IdentityRotation)
    \/ \E b1 \in KnownHandles("body"), a \in AxisInputs : \E b2 \in KnownHandles("body") \ {b1} :
         \/ add_fixed_joint(b1, b2, ZeroVector, ZeroVector, TRUE)
         \/ add_spherical_joint(b1, b2, ZeroVector, ZeroVector, TRUE)
         \/ add_revolute_joint(b1, b2, a, ZeroVector, ZeroVector, FALSE)
         \/ add_prismatic_joint(b1, b2, a, ZeroVector, ZeroVector, 0, 100, FALSE)
    \/ \E j \in KnownHandles("joint") : remove_joint(j)

SpecJoints == Init /\ [][NextJoints]_vars

\* One world's colliders: created, and removed with their parent bodies.
NextColliders ==
    \/ ~WorldExists /\ init
    \/ \E x \in ScalarInputs : add_cuboid_collider(x, x, x, 100, FALSE)
    \/ BodyCount < 2 /\ \E c \in KnownHandles("collider") :
         add_rigid_body(c, 0, ZeroVector, IdentityRotation)
    \/ \E b \in KnownHandles("body") : remove_rigid_body(b)

SpecColliders == Init /\ [][NextColliders]_vars

\* One world's bodies over two colliders, with a joint between two of them.
NextEntities ==
    \/ ~WorldExists /\ init
    \/ ColliderCount < 2 /\ \E x \in ScalarInputs : add_cuboid_collider(x, x, x, 100, FALSE)
    \/ BodyCount < 3 /\ \E c \in KnownHandles("collider") :
         add_rigid_body(c, 0, ZeroVector, IdentityRotation)
    \/ \E b \in KnownHandles("body") : remove_rigid_body(b)
    \/ JointCount = 0 /\ \E b1 \in KnownHandles("body") :
         \E b2 \in {b \in KnownHandles("body") : b.index > b1.index} :
           add_fixed_joint(b1, b2, ZeroVector, ZeroVector, FALSE)

SpecEntities == Init /\ [][NextEntities]_vars

\* Mesh and hull colliders, from meshes that can and that cannot be built, next
\* to a cuboid and a body that owns what it is given.
TetrahedronPoints == <<<<0, 0, 0>>, <<100, 0, 0>>, <<0, 100, 0>>, <<0, 0, 100>>>>

VertexInputs == {<<>>, <<<<0, 0, 0>>, <<100, 0, 0>>, <<0, 100, 0>>>>, TetrahedronPoints}

IndexInputs == {<<>>, <<<<0, 1, 2>>>>}

NextMesh ==
    /\ ~Aborted
    /\ \/ ~WorldExists /\ init
       \/ ColliderCount < 2 /\ \E x \in ScalarInputs : add_cuboid_collider(x, x, x, 100, FALSE)
       \/ \E vertices \in VertexInputs, indices \in IndexInputs :
            /\ indices # <<>> => Len(vertices) >= 3
            /\ add_mesh_collider(vertices, indices, 100, FALSE)
       \/ \E points \in VertexInputs : add_convex_mesh_collider(points, 100, FALSE)
       \/ BodyCount = 0 /\ \E c \in KnownHandles("collider") :
            add_rigid_body(c, 0, ZeroVector, IdentityRotation)

SpecMesh == Init /\ [][NextMesh]_vars

\* The host calling entry points with and without a world.  Without a world
\* the arguments are not read before the panic and are left out of the record.
NextUsage ==
    /\ ~Aborted
    /\ \/ Lifecycle
       \/ hello_world
       \/ held = {} /\ solve
       \/ \E ptr \in Addr : free_collision_events(ptr)
       \/ \E op \in WorldEntryPoints : unwrap_on_none(op, <<>>)
       \/ \E g \in GravityInputs : set_gravity(g)
       \/ ColliderCount = 0 /\ \E r \in ScalarInputs : add_sphere_collider(r, 100, FALSE)
       \/ BodyCount = 0 /\ \E c \in KnownHandles("collider") :
            add_rigid_body(c, 0, ZeroVector, IdentityRotation)
       \/ \E b \in KnownHandles("body") : get_transform(b)
       \/ \E p \in PointInputs, d \in AxisInputs : cast_ray(p, d)

SpecUsage == Init /\ [][NextUsage]_vars

\* Stepping a scene of two sphere colliders and releasing the buffers.
NextStep ==
    \/ Lifecycle
    \/ ColliderCount < 2 /\ \E r \in ScalarInputs : add_sphere_collider(r, 100, FALSE)
    \/ Stepping

SpecStep == Init /\ [][NextStep]_vars

\* One rigid body on one collider.
OneBody ==
    \/ ~WorldExists /\ init
    \/ ColliderCount = 0 /\ \E x \in ScalarInputs : add_cuboid_collider(x, x, x, 100, FALSE)
    \/ BodyCount = 0 /\ \E c \in KnownHandles("collider"), t \in 0..3, q \in QuaternionInputs :
         add_rigid_body(c, t, ZeroVector, q)

\* The body's transform, between steps whose buffer is released before the next.
NextTransform ==
    \/ OneBody
    \/ \E b \in KnownHandles("body") :
         \/ get_transform(b)
         \/ \E p \in PointInputs : set_transform_position(b, p)
         \/ \E q \in QuaternionInputs : set_transform_rotation(b, q)
         \/ \E p \in PointInputs, q \in QuaternionInputs : set_transform(b, p, q)
    \/ held = {} /\ solve
    \/ \E ptr \in Addr : free_collision_events(ptr)

SpecTransform == Init /\ [][NextTransform]_vars

\* The body's properties and velocities.
VelocityInputs == {<<100, 200, 300>>}
ConstraintInputs == {0, 4, 18}

NextVelocity ==
    \/ OneBody
    \/ \E b \in KnownHandles("body") :
         \/ \E t \in 0..3, ccd \in BOOLEAN, c \in ConstraintInputs :
              update_rigid_body_properties(b, t, ccd, c, 0, 50)
         \/ \E v \in VelocityInputs : set_linear_velocity(b, v)
         \/ \E v \in VelocityInputs : set_angular_velocity(b, v)
         \/ get_linear_velocity(b)
         \/ get_angular_velocity(b)

SpecVelocity == Init /\ [][NextVelocity]_vars

\* Forces on one body of mass 2 under the time steps the host configures; a
\* force is applied to a body at rest or at the velocity the host set.
ForceInputs == {<<1200, 2400, -3600>>}

NextForce ==
    \/ ~WorldExists /\ init
    \/ ColliderCount = 0 /\ \E x \in ScalarInputs : add_cuboid_collider(x, x, x, 200, FALSE)
    \/ BodyCount = 0 /\ \E c \in KnownHandles("collider"), t \in 0..3 :
         add_rigid_body(c, t, ZeroVector, IdentityRotation)
    \/ \E dt \in TimeStepInputs : set_time_step(dt)
    \/ \E dt \in TimeStepInputs, n \in SolverIterationInputs, t \in TunableInputs :
         set_integration_parameters(dt, n, t)
    \/ \E b \in KnownHandles("body") :
         \/ \E v \in VelocityInputs : set_linear_velocity(b, v)
         \/ \E f \in ForceInputs, mode \in ForceMode :
              /\ BodyIsLive(b)
              /\ Body(b).linvel \in {ZeroVector} \cup VelocityInputs
              /\ add_force(b, f, mode)
         \/ \E f \in ForceInputs, mode \in ForceMode :
              /\ BodyIsLive(b)
              /\ Body(b).angvel = ZeroVector
              /\ add_torque(b, f, mode)
         \/ get_linear_velocity(b)

SpecForce == Init /\ [][NextForce]_vars


(***************************************************************************)
(* Readings of a state that the properties below use.                      *)
(***************************************************************************)
\* The events a caller reads through the descriptor at address d.
BufferEvents(h, d) ==
    IF h[d].capacity = 0 THEN <<>> ELSE SubSeq(h[h[d].ptr].data, 1, h[d].len)

\* The cells a descriptor at address d owns: itself and its storage.
BufferCells(h, d) == IF h[d].capacity = 0 THEN {d} ELSE {d, h[d].ptr}

LiveCells == {a \in Addr : heap[a] # FreeCell}

EntitySet(psd, kind) ==
    CASE kind = "collider" -> psd.collider_set
      [] kind = "body" -> psd.rigid_body_set
      [] kind = "joint" -> psd.impulse_joint_set

\* The handle refers to a live entity of the world w (an Option).
Resolves(w, x) == w # None /\ ArenaContains(EntitySet(w.val, x.kind), FromSerializable(x.h))

BodyIn(w, h) == ArenaGet(w.val.rigid_body_set, FromSerializable(h)).val

(***************************************************************************)
(* C1.  A buffer solve() returned stays allocated and unchanged, whatever  *)
(* entry point runs, until free_collision_events is called on it; that one *)
(* call releases its descriptor and its event storage; nothing is released *)
(* twice, and nothing but the held buffers stays allocated.                *)
(***************************************************************************)
C1_BuffersOwnedByCaller ==
    /\ ~heap_fault
    /\ \A b \in held :
         /\ heap[b.desc].kind = "RawArray"
         /\ heap[b.desc].len = Len(b.events)
         /\ heap[b.desc].capacity > 0 => heap[heap[b.desc].ptr].kind = "events"
         /\ BufferEvents(heap, b.desc) = b.events
    /\ \A b1 \in held : \A b2 \in held :
         b1 # b2 => BufferCells(heap, b1.desc) \cap BufferCells(heap, b2.desc) = {}
    /\ LiveCells = UNION {BufferCells(heap, b.desc) : b \in held}

\* A buffer with events is still held after the world is gone and after another
\* buffer was released.
C1_Witness ==
    /\ last.op = "free_collision_events"
    /\ ~WorldExists
    /\ \E b \in held : b.events # <<>>

(***************************************************************************)
(* C2.  solve() without a world returns null, steps nothing, allocates     *)
(* nothing and leaves the world absent.                                    *)
(***************************************************************************)
C2_SolveWithoutWorld ==
    [][(~WorldExists /\ last'.op = "solve")
         => /\ last'.ret = NULL
            /\ last'.step = <<>>
            /\ PHYSIC_SOLVER_DATA' = None
            /\ heap' = heap
            /\ held' = held]_vars

\* solve() returned null after a teardown.
C2_Witness ==
    /\ last.op = "solve"
    /\ last.ret = NULL
    /\ ~WorldExists
    /\ foreign # {}

(***************************************************************************)
(* C3.  solve() on a world steps once and returns that step's events in    *)
(* the order they were sent: a started event with is_started true, a       *)
(* stopped event with is_started false, each with its two collider         *)
(* handles, and no entry for an event that is neither.                     *)
(***************************************************************************)
IsKnownEvent(e) == e.kind \in {"Started", "Stopped"}

ExpectedEvents(channel) ==
    LET known == SelectSeq(channel, IsKnownEvent)
    IN  [i \in 1..Len(known) |->
            [collider1 |-> [index |-> known[i].collider1[1],
                            generation |-> known[i].collider1[2]],
             collider2 |-> [index |-> known[i].collider2[1],
                            generation |-> known[i].collider2[2]],
             is_started |-> known[i].kind = "Started"]]

C3_SolveReturnsTheStepsEvents ==
    (last.op = "solve" /\ last.ret # NULL)
        => /\ Len(last.step) = 1
           /\ BufferEvents(heap, last.ret) = ExpectedEvents(last.step[1])

\* A step that sent a start and then a stop, while an earlier buffer is still held.
C3_Witness ==
    /\ last.op = "solve"
    /\ last.ret # NULL
    /\ Len(last.step) = 1
    /\ Len(last.step[1]) = 2
    /\ last.step[1][1].kind = "Started"
    /\ last.step[1][2].kind = "Stopped"
    /\ Len(BufferEvents(heap, last.ret)) = 2
    /\ Cardinality(held) = 2

(***************************************************************************)
(* C4.  After init(), in any history, the world exists and is the default  *)
(* one: gravity (0, -9.81, 0), time step 1/50 s, minimum CCD step a        *)
(* hundredth of the time step, and no body, collider or joint.             *)
(***************************************************************************)
C4_InitGivesDefaultWorld ==
    last.op = "init"
        => /\ WorldExists
           /\ LET psd == PHYSIC_SOLVER_DATA.val
                  ip == psd.integration_parameters
              IN  /\ psd.gravity = <<0, -981, 0>>
                  /\ RatEq(ip.dt, Rat(1, 50))
                  /\ RatEq(ip.min_ccd_dt, RatDiv(ip.dt, 100))
                  /\ ArenaHandles(psd.rigid_body_set) = {}
                  /\ ArenaHandles(psd.collider_set) = {}
                  /\ ArenaHandles(psd.impulse_joint_set) = {}
                  /\ psd.multibody_joint_set = {}

\* init() ran after a world that had bodies and a joint.
C4_Witness ==
    /\ last.op = "init"
    /\ \E x \in foreign : x.kind = "joint"
    /\ issued = {}

(***************************************************************************)
(* C5.  A collider creation returns a handle that no live collider had and *)
(* that was never returned before in this world, so an old handle, also    *)
(* one of a removed collider whose slot is reused, never refers to the new *)
(* collider; the returned handle refers to a live collider.                *)
(***************************************************************************)
ColliderCreations == {"add_cuboid_collider", "add_sphere_collider", "add_capsule_collider"}

C5_ColliderHandlesAreFresh ==
    [][(last'.op \in ColliderCreations)
         => /\ [kind |-> "collider", h |-> last'.ret] \notin issued
            /\ ~Resolves(PHYSIC_SOLVER_DATA, [kind |-> "collider", h |-> last'.ret])
            /\ Resolves(PHYSIC_SOLVER_DATA', [kind |-> "collider", h |-> last'.ret])
            /\ \A x \in issued :
                 (x.kind = "collider" /\ Resolves(PHYSIC_SOLVER_DATA', x))
                    => Resolves(PHYSIC_SOLVER_DATA, x)]_vars

\* A collider was created in the slot of a collider that was removed with its body.
C5_Witness ==
    /\ last.op \in ColliderCreations
    /\ \E x \in issued :
         /\ x.kind = "collider"
         /\ x.h.index = last.ret.index
         /\ x.h.generation < last.ret.generation
         /\ ~Resolves(PHYSIC_SOLVER_DATA, x)

(***************************************************************************)
(* C6.  As the specification states it: a handle returned by a world that  *)
(* teardown() or a later init() discarded refers to no live entity, also   *)
(* after a new world has been populated.                                   *)
(***************************************************************************)
C6_DiscardedHandlesAreDead ==
    \A x \in foreign : ~Resolves(PHYSIC_SOLVER_DATA, x)

(***************************************************************************)
(* C7.  remove_rigid_body(h) on a live body removes that body, every       *)
(* collider parented to it and every joint attached to it, and leaves      *)
(* every other body, collider and joint as it was.                         *)
(***************************************************************************)
Entities(psd, kind) ==
    [h \in ArenaHandles(EntitySet(psd, kind)) |-> ArenaGet(EntitySet(psd, kind), h).val]

Restrict(f, S) == [x \in S |-> f[x]]

C7_RemoveRigidBodyCascades ==
    [][(last'.op = "remove_rigid_body"
          /\ Resolves(PHYSIC_SOLVER_DATA, [kind |-> "body", h |-> last'.args[1]]))
         => LET b == FromSerializable(last'.args[1])
                before == PHYSIC_SOLVER_DATA.val
                after == PHYSIC_SOLVER_DATA'.val
                bodies == Entities(before, "body")
                colliders == Entities(before, "collider")
                joints == Entities(before, "joint")
                its_colliders == {c \in DOMAIN colliders : colliders[c].parent = Some(b)}
                its_joints == {j \in DOMAIN joints : b \in {joints[j].body1, joints[j].body2}}
            IN  /\ Entities(after, "body") = Restrict(bodies, DOMAIN bodies \ {b})
                /\ Entities(after, "collider")
                     = Restrict(colliders, DOMAIN colliders \ its_colliders)
                /\ Entities(after, "joint") = Restrict(joints, DOMAIN joints \ its_joints)]_vars

\* A body was removed together with a collider, and two bodies, a collider and a
\* joint between other bodies are still there.
C7_Witness ==
    /\ last.op = "remove_rigid_body"
    /\ WorldExists
    /\ [kind |-> "body", h |-> last.args[1]] \in issued
    /\ ~Resolves(PHYSIC_SOLVER_DATA, [kind |-> "body", h |-> last.args[1]])
    /\ PHYSIC_SOLVER_DATA.val.collider_set.generation > 0
    /\ ArenaLen(PHYSIC_SOLVER_DATA.val.collider_set) > 0
    /\ ArenaLen(PHYSIC_SOLVER_DATA.val.impulse_joint_set) > 0

(***************************************************************************)
(* C8.  add_rigid_body with a collider that is parented to another body    *)
(* moves the collider: the new body is its parent and its only owner, the  *)
(* prior body no longer lists it, removing the prior body keeps the        *)
(* collider and removing the new body removes it.                          *)
(***************************************************************************)
C8_AddRigidBodyReparents ==
    [][(last'.op = "add_rigid_body"
          /\ Resolves(PHYSIC_SOLVER_DATA, [kind |-> "collider", h |-> last'.args[1]])
          /\ Entities(PHYSIC_SOLVER_DATA.val, "collider")
                [FromSerializable(last'.args[1])].parent # None)
         => LET c == FromSerializable(last'.args[1])
                new == FromSerializable(last'.ret)
                prior == Entities(PHYSIC_SOLVER_DATA.val, "collider")[c].parent.val
                after == PHYSIC_SOLVER_DATA'.val
                bodies == Entities(after, "body")
            IN  /\ prior # new
                /\ Entities(after, "collider")[c].parent = Some(new)
                /\ \A b \in DOMAIN bodies : c \in bodies[b].colliders <=> b = new
                /\ prior \in DOMAIN bodies
                /\ ArenaContains(RigidBodySetRemove(after, prior).collider_set, c)
                /\ ~ArenaContains(RigidBodySetRemove(after, new).collider_set, c)]_vars

\* Two bodies were created with the one collider there is; the later one owns it.
C8_Witness ==
    /\ last.op = "add_rigid_body"
    /\ WorldExists
    /\ {x \in issued : x.kind = "collider"} = {[kind |-> "collider", h |-> last.args[1]]}
    /\ PHYSIC_SOLVER_DATA.val.rigid_body_set.generation = 0
    /\ ArenaLen(PHYSIC_SOLVER_DATA.val.rigid_body_set) >= 2
    /\ Entities(PHYSIC_SOLVER_DATA.val, "collider")
          [FromSerializable(last.args[1])].parent = Some(FromSerializable(last.ret))

(***************************************************************************)
(* C9.  As the specification states it: on a kinematic body, after         *)
(* set_transform_position(p) and set_transform_rotation(q), in either      *)
(* order, get_transform returns p with q.                                  *)
(***************************************************************************)
IsBody(w, h) == Resolves(w, [kind |-> "body", h |-> h])

\* The two setters were called one right after the other on the same live
\* kinematic body, first then second.
SetOneThenOther(first, second) ==
    /\ last.op = first
    /\ last'.op = second
    /\ last.args[1] = last'.args[1]
    /\ IsBody(PHYSIC_SOLVER_DATA, last'.args[1])
    /\ is_kinematic(BodyIn(PHYSIC_SOLVER_DATA, last'.args[1]))

\* The transform is position p with the rotation of quaternion q; q and -q
\* are the same rotation.
IsPose(transform, p, q) ==
    /\ transform.position = p
    /\ transform.rotation \in {Normalize(q), Neg(Normalize(q))}

C9_GetTransformReturnsLastSet ==
    [][/\ SetOneThenOther("set_transform_position", "set_transform_rotation")
          => IsPose(RapierTransform(BodyIn(PHYSIC_SOLVER_DATA', last'.args[1])),
                    last.args[2], last'.args[2])
       /\ SetOneThenOther("set_transform_rotation", "set_transform_position")
          => IsPose(RapierTransform(BodyIn(PHYSIC_SOLVER_DATA', last'.args[1])),
                    last'.args[2], last.args[2])]_vars

(***************************************************************************)
(* C9, as the code has it.  On a kinematic body, after                     *)
(* set_transform_position(p) and set_transform_rotation(q), in either      *)
(* order, the body's next kinematic pose is p with the normalised q:       *)
(* neither setter overwrites the other's component.  Neither setter        *)
(* changes what get_transform returns, which is the body's current pose.   *)
(***************************************************************************)
C9_SettersComposeNextPose ==
    [][/\ SetOneThenOther("set_transform_position", "set_transform_rotation")
          => BodyIn(PHYSIC_SOLVER_DATA', last'.args[1]).next_position
               = Isometry(last.args[2], Normalize(last'.args[2]))
       /\ SetOneThenOther("set_transform_rotation", "set_transform_position")
          => BodyIn(PHYSIC_SOLVER_DATA', last'.args[1]).next_position
               = Isometry(last'.args[2], Normalize(last.args[2]))
       /\ (last'.op \in {"set_transform_position", "set_transform_rotation"}
             /\ IsBody(PHYSIC_SOLVER_DATA, last'.args[1]))
          => RapierTransform(BodyIn(PHYSIC_SOLVER_DATA', last'.args[1]))
               = RapierTransform(BodyIn(PHYSIC_SOLVER_DATA, last'.args[1]))]_vars

\* A kinematic body whose next pose differs from its current pose in both the
\* translation and the rotation, right after a setter.
C9_Witness ==
    /\ last.op \in {"set_transform_position", "set_transform_rotation"}
    /\ IsBody(PHYSIC_SOLVER_DATA, last.args[1])
    /\ LET rb == BodyIn(PHYSIC_SOLVER_DATA, last.args[1])
       IN  /\ is_kinematic(rb)
           /\ rb.next_position.translation # rb.position.translation
           /\ rb.next_position.rotation # rb.position.rotation

(***************************************************************************)
(* C10.  As the specification states it: update_rigid_body_properties      *)
(* with a bitmask that newly locks the Y translation of a body whose Y     *)
(* velocity is nonzero zeroes that component and leaves the X and Z        *)
(* components unchanged where those axes remain unlocked.                  *)
(***************************************************************************)
\* The call is update_rigid_body_properties on a live body moving along Y, and
\* its bitmask locks the Y translation that was unlocked.
NewlyLocksMovingY ==
    /\ last'.op = "update_rigid_body_properties"
    /\ IsBody(PHYSIC_SOLVER_DATA, last'.args[1])
    /\ "TRANSLATION_LOCKED_Y" \notin BodyIn(PHYSIC_SOLVER_DATA, last'.args[1]).locked_axes
    /\ "TRANSLATION_LOCKED_Y" \in unity_constraints_to_locked_axes(last'.args[4])
    /\ BodyIn(PHYSIC_SOLVER_DATA, last'.args[1]).linvel[2] # 0

\* The Y component is zero; X and Z are as before where the axis was and is unlocked.
YZeroedOthersKept(before, after) ==
    /\ after.linvel[2] = 0
    /\ "TRANSLATION_LOCKED_X" \notin (before.locked_axes \cup after.locked_axes)
          => after.linvel[1] = before.linvel[1]
    /\ "TRANSLATION_LOCKED_Z" \notin (before.locked_axes \cup after.locked_axes)
          => after.linvel[3] = before.linvel[3]

AddsForceToMassiveBody ==
    /\ last'.op = "add_force"
    /\ IsBody(PHYSIC_SOLVER_DATA, last'.args[1])
    /\ mass(PHYSIC_SOLVER_DATA.val, BodyIn(PHYSIC_SOLVER_DATA, last'.args[1])) > 0

\* w - v is what the mode makes of F, for the mass m and the time step dt; the
\* relation is stated without a division.
IsForceResult(w, v, F, mode, dt, m) ==
    \A i \in 1..3 :
        CASE mode = 0 -> (w[i] - v[i]) * m * dt.den = F[i] * dt.num * 100
          [] mode = 1 -> (w[i] - v[i]) * m = F[i] * 100
          [] mode = 2 -> w[i] - v[i] = F[i]
          [] mode = 5 -> (w[i] - v[i]) * dt.den = F[i] * dt.num

ForceApplied(before, after) ==
    /\ IsForceResult(after.linvel, before.linvel, last'.args[2], last'.args[3],
                     PHYSIC_SOLVER_DATA.val.integration_parameters.dt,
                     mass(PHYSIC_SOLVER_DATA.val, before))
    /\ after = [before EXCEPT !.linvel = after.linvel]

C11_AddForceChangesVelocity ==
    [][AddsForceToMassiveBody
         => ForceApplied(BodyIn(PHYSIC_SOLVER_DATA, last'.args[1]),
                         BodyIn(PHYSIC_SOLVER_DATA', last'.args[1]))]_vars

(***************************************************************************)
(* C11, as the code has it.  The same for a dynamic or a velocity-based    *)
(* kinematic body; on a fixed or a position-based kinematic body add_force *)
(* changes nothing.  In both cases no force is accumulated.                *)
(***************************************************************************)
C11_AddForceChangesMovableVelocity ==
    [][AddsForceToMassiveBody
         => LET before == BodyIn(PHYSIC_SOLVER_DATA, last'.args[1])
                after == BodyIn(PHYSIC_SOLVER_DATA', last'.args[1])
            IN  /\ TakesVelocity(before) => ForceApplied(before, after)
                /\ ~TakesVelocity(before) => after = before
                /\ after.user_force = before.user_force]_vars

\* A force in mode Force was applied to a dynamic body of mass 2 that moved,
\* under a time step of 1/60 the host had set.
C11_Witness ==
    /\ last.op = "add_force"
    /\ last.args[3] = 0
    /\ IsBody(PHYSIC_SOLVER_DATA, last.args[1])
    /\ RatEq(PHYSIC_SOLVER_DATA.val.integration_parameters.dt, Rat(1, 60))
    /\ LET rb == BodyIn(PHYSIC_SOLVER_DATA, last.args[1])
       IN  /\ rb.body_type = "Dynamic"
           /\ mass(PHYSIC_SOLVER_DATA.val, rb) = 200
           /\ rb.linvel = <<110, 220, 270>>

(***************************************************************************)
(* C12.  When the construction of the geometry fails in add_mesh_collider  *)
(* (as it does for an empty index set) or in add_convex_mesh_collider, the *)
(* call returns the invalid handle, which refers to no collider, and the   *)
(* world and every handle given out are as before.                         *)
(***************************************************************************)
\* The call returned from a mesh creation whose geometry could not be built.
MeshConstructionFails ==
    /\ WorldExists
    /\ ~last'.panicked
    /\ \/ last'.op = "add_mesh_collider" /\ last'.args[2] = <<>>
       \/ last'.op = "add_convex_mesh_collider" /\ IsDegenerate(last'.args[1])

C13_NoWorldIsUsageError ==
    [][/\ (~WorldExists /\ last'.op \in WorldEntryPoints)
          => /\ last'.panicked
             /\ PHYSIC_SOLVER_DATA' = None
             /\ UNCHANGED <<heap, heap_fault, held, issued, foreign>>
       /\ last.panicked => UNCHANGED vars]_vars

\* add_rigid_body was called with the handle of a torn-down world and panicked.
C13_Witness ==
    /\ last.op = "add_rigid_body"
    /\ last.panicked
    /\ ~WorldExists
    /\ \E x \in foreign : x.kind = "collider"

(***************************************************************************)
(* C14.  Whenever a world exists, its minimum CCD time step is a hundredth *)
(* of its time step.  set_time_step(dt) and set_integration_parameters(dt, *)
(* ...) make dt the time step, and no entry point other than these and     *)
(* init() changes the time step or the minimum CCD time step.              *)
(***************************************************************************)
TimeSteps(w) ==
    <<w.val.integration_parameters.dt, w.val.integration_parameters.min_ccd_dt>>

C14_MinCcdDtIsHundredthOfDt ==
    /\ [](WorldExists
            => RatEq(TimeSteps(PHYSIC_SOLVER_DATA)[2],
                     RatDiv(TimeSteps(PHYSIC_SOLVER_DATA)[1], 100)))
    /\ [][/\ (last'.op \in {"set_time_step", "set_integration_parameters"} /\ ~last'.panicked)
             => TimeSteps(PHYSIC_SOLVER_DATA')[1] = last'.args[1]
          /\ (WorldExists /\ PHYSIC_SOLVER_DATA' # None
                /\ last'.op \notin {"init", "set_time_step", "set_integration_parameters"})
             => TimeSteps(PHYSIC_SOLVER_DATA') = TimeSteps(PHYSIC_SOLVER_DATA)]_vars

\* set_time_step(1/100) on a world whose parameters set_integration_parameters
\* had replaced.
C14_Witness ==
    /\ last.op = "set_time_step"
    /\ WorldExists
    /\ TimeSteps(PHYSIC_SOLVER_DATA) = <<Rat(1, 100), [num |-> 1, den |-> 10000]>>
    /\ PHYSIC_SOLVER_DATA.val.integration_parameters.num_solver_iterations = 8

(***************************************************************************)
(* C15.  solve() on a world returns a descriptor that is not null and was  *)
(* allocated by this call, also for a step without events: its address was *)
(* free and is the address of no buffer the host holds; its length is the  *)
(* number of events returned and at most its capacity; the host holds one  *)
(* buffer more than before, each under a descriptor of its own.            *)
(***************************************************************************)
Descriptors(buffers) == {b.desc : b \in buffers}

C15_SolveReturnsFreshDescriptor ==
    [][(WorldExists /\ last'.op = "solve")
         => /\ last'.ret # NULL
            /\ heap[last'.ret] = FreeCell
            /\ last'.ret \notin Descriptors(held)
            /\ heap'[last'.ret].kind = "RawArray"
            /\ heap'[last'.ret].len = Len(ExpectedEvents(last'.step[1]))
            /\ heap'[last'.ret].len <= heap'[last'.ret].capacity
            /\ Descriptors(held') = Descriptors(held) \cup {last'.ret}
            /\ Cardinality(Descriptors(held')) = Cardinality(held')
            /\ Cardinality(held') = Cardinality(held) + 1]_vars

\* A step without events returned a descriptor of length zero while the host
\* still holds the descriptor of an earlier step without events.
C15_Witness ==
    /\ last.op = "solve"
    /\ last.ret # NULL
    /\ last.step = <<<<>>>>
    /\ heap[last.ret].len = 0
    /\ \E b \in held : b.desc # last.ret /\ b.events = <<>>

====
